---- MODULE Spec2Model ----
(***************************************************************************)
(* LedgerLite (src/src/App.tsx): the in-memory record store of the App     *)
(* component, the persistence calls that feed it, and the values derived   *)
(* from it on every render (totals, balance, goal progress, the filtered   *)
(* view, the CSV export).                                                  *)
(*                                                                         *)
(* Text is a sequence of fragments; text the user types is held one       *)
(* character per fragment.  Money is held in hundredths (the schema's      *)
(* DECIMAL(12, 2)).  A timestamp is a tick count; two ticks make a day.    *)
(***************************************************************************)
EXTENDS Integers, Sequences, FiniteSets, TLC

\* The number of user events (submissions, deletions, searches, exports) of
\* one session.
MaxEvents == 2

VARIABLES
    transactions,   \* useState<Transaction[]>([])
    goals,          \* useState<SavingGoal[]>([])
    isLoading,      \* useState(true)
    searchTerm,     \* useState('')
    remoteTx,       \* the rows of table transactions
    remoteGoals,    \* the rows of table saving_goals, in created_at order
    nextId,         \* the next id the remote store assigns
    clock,          \* the client's clock
    fetch,          \* the two list calls of fetchData
    calls,          \* the insert and delete calls in flight
    events,         \* user events so far
    alerts,         \* alert() calls so far
    logged,         \* console.error calls so far
    saved           \* the files handed to the browser's download

vars == <<transactions, goals, isLoading, searchTerm, remoteTx, remoteGoals,
          nextId, clock, fetch, calls, events, alerts, logged, saved>>

store == <<transactions, goals>>

----------------------------------------------------------------------------
\* Text

UpperCase == <<"A","B","C","D","E","F","G","H","I","J","K","L","M",
               "N","O","P","Q","R","S","T","U","V","W","X","Y","Z">>
LowerCase == <<"a","b","c","d","e","f","g","h","i","j","k","l","m",
               "n","o","p","q","r","s","t","u","v","w","x","y","z">>

UpperToLower ==
    [c \in { UpperCase[i] : i \in 1..Len(UpperCase) } |->
        LowerCase[CHOOSE i \in 1..Len(UpperCase) : UpperCase[i] = c]]

LowerChar(c) == IF c \in DOMAIN UpperToLower THEN UpperToLower[c] ELSE c

\* String.prototype.toLowerCase
toLowerCase(s) == [i \in 1..Len(s) |-> LowerChar(s[i])]

\* String.prototype.includes
includes(s, q) ==
    \E i \in 0..(Len(s) - Len(q)) : SubSeq(s, i + 1, i + Len(q)) = q

\* Array.prototype.join
RECURSIVE join(_, _)
join(parts, sep) ==
    IF Len(parts) = 0 THEN <<>>
    ELSE IF Len(parts) = 1 THEN parts[1]
    ELSE parts[1] \o sep \o join(Tail(parts), sep)

Digits == <<"0","1","2","3","4","5","6","7","8","9">>

IsDigit(c) == \E i \in 1..Len(Digits) : Digits[i] = c

DigitVal(c) == (CHOOSE i \in 1..Len(Digits) : Digits[i] = c) - 1

RECURSIVE NatToStr(_)
NatToStr(n) ==
    IF n < 10 THEN <<Digits[n + 1]>>
    ELSE NatToStr(n \div 10) \o <<Digits[(n % 10) + 1]>>

\* Number to text, as Array.prototype.join renders a number of hundredths:
\* no trailing zeros, no decimal point for a whole number.
NumberToString(h) ==
    LET a == IF h < 0 THEN 0 - h ELSE h
        whole == NatToStr(a \div 100)
        frac == a % 100
        digits == IF frac = 0 THEN whole
                  ELSE IF frac % 10 = 0
                       THEN whole \o <<".">> \o NatToStr(frac \div 10)
                       ELSE whole \o <<".">> \o NatToStr(frac \div 10)
                                  \o NatToStr(frac % 10)
    IN IF h < 0 THEN <<"-">> \o digits ELSE digits

RECURSIVE DigitsValue(_, _)
DigitsValue(s, acc) ==
    IF Len(s) = 0 \/ ~IsDigit(s[1]) THEN acc
    ELSE DigitsValue(Tail(s), acc * 10 + DigitVal(s[1]))

RECURSIVE DigitsLen(_)
DigitsLen(s) ==
    IF Len(s) = 0 \/ ~IsDigit(s[1]) THEN 0 ELSE 1 + DigitsLen(Tail(s))

\* parseFloat of the text of a number input, in hundredths (two decimals kept).
parseFloat(s) ==
    LET neg == Len(s) > 0 /\ s[1] = "-"
        body == IF neg THEN Tail(s) ELSE s
        n == DigitsLen(body)
        whole == DigitsValue(body, 0)
        rest == SubSeq(body, n + 1, Len(body))
        fracText == IF Len(rest) > 0 /\ rest[1] = "." THEN Tail(rest) ELSE <<>>
        d1 == IF Len(fracText) >= 1 /\ IsDigit(fracText[1])
              THEN DigitVal(fracText[1]) ELSE 0
        d2 == IF Len(fracText) >= 2 /\ IsDigit(fracText[1]) /\ IsDigit(fracText[2])
              THEN DigitVal(fracText[2]) ELSE 0
        h == whole * 100 + d1 * 10 + d2
    IN IF neg THEN 0 - h ELSE h

----------------------------------------------------------------------------
\* The forms' input

CATEGORIES == { <<"F","o","o","d">>,
                <<"T","r","a","n","s","p","o","r","t">>,
                <<"E","n","t","e","r","t","a","i","n","m","e","n","t">>,
                <<"S","h","o","p","p","i","n","g">>,
                <<"H","e","a","l","t","h">>,
                <<"O","t","h","e","r">>,
                <<"S","a","l","a","r","y">>,
                <<"F","r","e","e","l","a","n","c","e">> }

\* What the user puts in the transaction form before submitting it.
TransactionForms ==
    { [description |-> <<"R","e","n","t",","," ","M","a","y">>,
       amount |-> <<"1","2",".","5">>,
       category |-> <<"O","t","h","e","r">>, type |-> "expense"],
      [description |-> <<>>, amount |-> <<"5","0">>,
       category |-> <<"F","o","o","d">>, type |-> "expense"] }

\* What the user puts in the goal form before submitting it.
GoalForms ==
    { [goalName |-> <<"T","r","i","p">>, goalTarget |-> <<"2","0">>],
      [goalName |-> <<"B","i","k","e">>, goalTarget |-> <<"9">>],
      [goalName |-> <<"N","i","l">>, goalTarget |-> <<"0">>],
      [goalName |-> <<"C","a","r">>, goalTarget |-> <<>>] }

\* What the user types in the search box.
SearchTerms == { <<>>, <<"S","A","L">>, <<"o","T","H">> }

\* The row the remote store holds when the session starts.
SalaryRow ==
    [id |-> 1, description |-> <<"S","a","l","a","r","y">>, amount |-> 1000,
     category |-> <<"S","a","l","a","r","y">>, date |-> 0, type |-> "income"]

----------------------------------------------------------------------------
\* The remote store

Ids(rows) == { rows[i].id : i \in 1..Len(rows) }

\* select('*').order('date', { ascending: false }): any order of the rows in
\* which dates do not increase (rows of one date come in any order).
RECURSIVE DateDescending(_)
DateDescending(rows) ==
    IF rows = {} THEN { <<>> }
    ELSE UNION { { <<t>> \o rest : rest \in DateDescending(rows \ {t}) } :
                 t \in { x \in rows : \A y \in rows : y.date <= x.date } }

Pending == [state |-> "pending", data |-> <<>>]
Failed == [state |-> "error", data |-> <<>>]
Ok(rows) == [state |-> "ok", data |-> rows]

----------------------------------------------------------------------------
\* Values derived on every render

\* filteredTransactions comparing the texts as typed (no toLowerCase on the row).
filteredCaseSensitive ==
    SelectSeq(transactions,
              LAMBDA t : \/ includes(t.description, toLowerCase(searchTerm))
                         \/ includes(t.category, toLowerCase(searchTerm)))

\* const filteredTransactions = transactions.filter(...)
filteredTransactions ==
    SelectSeq(transactions,
              LAMBDA t : \/ includes(toLowerCase(t.description), toLowerCase(searchTerm))
                         \/ includes(toLowerCase(t.category), toLowerCase(searchTerm)))

\* reduce that adds every amount to income, whatever the row's type.
RECURSIVE reduceOneField(_, _)
reduceOneField(rows, acc) ==
    IF Len(rows) = 0 THEN acc
    ELSE LET current == Head(rows)
         IN reduceOneField(Tail(rows),
                   [acc EXCEPT !.income = @ + current.amount])

\* transactions.reduce(..., { income: 0, expense: 0 })
RECURSIVE reduce(_, _)
reduce(rows, acc) ==
    IF Len(rows) = 0 THEN acc
    ELSE LET current == Head(rows)
         IN reduce(Tail(rows),
                   IF current.type = "income"
                   THEN [acc EXCEPT !.income = @ + current.amount]
                   ELSE [acc EXCEPT !.expense = @ + current.amount])

totals == reduce(transactions, [income |-> 0, expense |-> 0])

balance == totals.income - totals.expense

\* A JavaScript number: a ratio num/den with den > 0, NaN, or -Infinity
\* (+Infinity never survives Math.min(_, 100)).
Number(n, d) == [kind |-> "number", num |-> n, den |-> d]
NaN == [kind |-> "NaN", num |-> 0, den |-> 1]
NegInfinity == [kind |-> "-Infinity", num |-> 0, den |-> 1]

\* Math.min((balance / goal.target_amount) * 100, 100), for a balance.
progressOf(bal, goal) ==
    LET t == goal.target_amount
        n == (IF t < 0 THEN 0 - bal ELSE bal) * 100
        d == IF t < 0 THEN 0 - t ELSE t
    IN IF t = 0
       THEN IF bal = 0 THEN NaN
            ELSE IF bal > 0 THEN Number(100, 1) ELSE NegInfinity
       ELSE IF n <= 100 * d THEN Number(n, d) ELSE Number(100, 1)

\* const progress, in the render of a goal.
progress(goal) == progressOf(balance, goal)

\* progress >= 100
isAchieved(goal) ==
    LET p == progress(goal) IN p.kind = "number" /\ p.num >= 100 * p.den

\* The width with the test for a negative progress left out.
widthUnclamped(p) == p

\* width: `${progress < 0 ? 0 : progress}%`
widthOf(p) ==
    IF p.kind = "-Infinity" \/ (p.kind = "number" /\ p.num < 0)
    THEN Number(0, 1) ELSE p

width(goal) == widthOf(progress(goal))

\* new Date(t.date).toLocaleDateString(): the calendar day, the time dropped.
toLocaleDateString(date) == NatToStr(date \div 2)

\* The text exportToCSV builds from the store.
csvContent ==
    LET headers == << <<"Date">>, <<"Description">>, <<"Category">>,
                      <<"Type">>, <<"Amount">> >>
        csvData == [i \in 1..Len(transactions) |->
                      LET t == transactions[i]
                      IN << toLocaleDateString(t.date), t.description, t.category,
                            <<t.type>>, NumberToString(t.amount) >>]
    IN join(<<join(headers, <<",">>)>>
              \o [i \in 1..Len(csvData) |-> join(csvData[i], <<",">>)],
            <<"\n">>)

----------------------------------------------------------------------------
\* The session

Init ==
    /\ transactions = <<>>
    /\ goals = <<>>
    /\ isLoading = TRUE
    /\ searchTerm = <<>>
    /\ remoteTx = {SalaryRow}
    /\ remoteGoals = <<>>
    /\ nextId = 2
    /\ clock = 0
    /\ fetch = [transRes |-> Pending, goalsRes |-> Pending, done |-> FALSE]
    /\ calls = {}
    /\ events = 0
    /\ alerts = 0
    /\ logged = 0
    /\ saved = <<>>

\* The remote store answers fetchData's select on transactions.
ListTransactions ==
    /\ fetch.transRes = Pending
    /\ \/ \E rows \in DateDescending(remoteTx) :
            fetch' = [fetch EXCEPT !.transRes = Ok(rows)]
       \/ fetch' = [fetch EXCEPT !.transRes = Failed]
    /\ UNCHANGED <<transactions, goals, isLoading, searchTerm, remoteTx, remoteGoals,
                   nextId, clock, calls, events, alerts, logged, saved>>

\* The remote store answers fetchData's select on saving_goals.
ListGoals ==
    /\ fetch.goalsRes = Pending
    /\ \/ fetch' = [fetch EXCEPT !.goalsRes = Ok(remoteGoals)]
       \/ fetch' = [fetch EXCEPT !.goalsRes = Failed]
    /\ UNCHANGED <<transactions, goals, isLoading, searchTerm, remoteTx, remoteGoals,
                   nextId, clock, calls, events, alerts, logged, saved>>

\* fetchData that stores each answer as soon as it is known to be good.
FetchDataDoneEach ==
    /\ ~fetch.done
    /\ fetch.transRes # Pending
    /\ fetch.goalsRes # Pending
    /\ IF fetch.transRes.state = "error"
       THEN /\ logged' = logged + 1
            /\ UNCHANGED <<transactions, goals>>
       ELSE /\ transactions' = fetch.transRes.data
            /\ IF fetch.goalsRes.state = "error"
               THEN /\ logged' = logged + 1
                    /\ UNCHANGED goals
               ELSE /\ goals' = fetch.goalsRes.data
                    /\ UNCHANGED logged
    /\ isLoading' = FALSE
    /\ fetch' = [fetch EXCEPT !.done = TRUE]
    /\ UNCHANGED <<searchTerm, remoteTx, remoteGoals, nextId, clock, calls,
                   events, alerts, saved>>

\* fetchData after its await: both answers are in.
FetchDataDone ==
    /\ ~fetch.done
    /\ fetch.transRes # Pending
    /\ fetch.goalsRes # Pending
    /\ IF fetch.transRes.state = "error" \/ fetch.goalsRes.state = "error"
       THEN /\ logged' = logged + 1
            /\ UNCHANGED <<transactions, goals>>
       ELSE /\ transactions' = fetch.transRes.data
            /\ goals' = fetch.goalsRes.data
            /\ UNCHANGED logged
    /\ isLoading' = FALSE
    /\ fetch' = [fetch EXCEPT !.done = TRUE]
    /\ UNCHANGED <<searchTerm, remoteTx, remoteGoals, nextId, clock, calls,
                   events, alerts, saved>>

Call(kind, snap, arg) ==
    [n |-> events + 1, kind |-> kind, snap |-> snap, arg |-> arg, res |-> Pending]

\* addTransaction up to its await.  The handler keeps the transactions of the
\* render it was created in.
AddTransaction(form, now) ==
    /\ events < MaxEvents
    /\ events' = events + 1
    /\ IF form.description = <<>> \/ form.amount = <<>>
       THEN UNCHANGED <<calls, clock>>
       ELSE /\ calls' = calls \cup
                  { Call("addTransaction", transactions,
                         [description |-> form.description,
                          amount |-> parseFloat(form.amount),
                          category |-> form.category,
                          date |-> now,
                          type |-> form.type]) }
            /\ clock' = now
    /\ UNCHANGED <<transactions, goals, isLoading, searchTerm, remoteTx, remoteGoals,
                   nextId, fetch, alerts, logged, saved>>

\* The remote store answers an insert into transactions.
InsertTransaction(c) ==
    /\ c.kind = "addTransaction"
    /\ c.res = Pending
    /\ \/ LET row == [id |-> nextId, description |-> c.arg.description,
                      amount |-> c.arg.amount, category |-> c.arg.category,
                      date |-> c.arg.date, type |-> c.arg.type]
          IN /\ remoteTx' = remoteTx \cup {row}
             /\ nextId' = nextId + 1
             /\ calls' = (calls \ {c}) \cup {[c EXCEPT !.res = Ok(<<row>>)]}
       \/ /\ calls' = (calls \ {c}) \cup {[c EXCEPT !.res = Failed]}
          /\ UNCHANGED <<remoteTx, nextId>>
    /\ UNCHANGED <<transactions, goals, isLoading, searchTerm, remoteGoals, clock,
                   fetch, events, alerts, logged, saved>>

\* addTransaction after its await, the new row put last.
AddTransactionDoneAppend(c) ==
    /\ c.kind = "addTransaction"
    /\ c.res # Pending
    /\ IF c.res.state = "error"
       THEN /\ logged' = logged + 1
            /\ UNCHANGED transactions
       ELSE /\ transactions' = c.snap \o <<c.res.data[1]>>
            /\ UNCHANGED logged
    /\ calls' = calls \ {c}
    /\ UNCHANGED <<goals, isLoading, searchTerm, remoteTx, remoteGoals, nextId, clock,
                   fetch, events, alerts, saved>>

\* addTransaction after its await, the new row put before the rows the store
\* holds now (setTransactions(prev => [data[0], ...prev])).
AddTransactionDoneOnCurrent(c) ==
    /\ c.kind = "addTransaction"
    /\ c.res # Pending
    /\ IF c.res.state = "error"
       THEN /\ logged' = logged + 1
            /\ UNCHANGED transactions
       ELSE /\ transactions' = <<c.res.data[1]>> \o transactions
            /\ UNCHANGED logged
    /\ calls' = calls \ {c}
    /\ UNCHANGED <<goals, isLoading, searchTerm, remoteTx, remoteGoals, nextId, clock,
                   fetch, events, alerts, saved>>

\* addTransaction after its await, with the alert of its catch block kept.
AddTransactionDoneAlert(c) ==
    /\ c.kind = "addTransaction"
    /\ c.res # Pending
    /\ IF c.res.state = "error"
       THEN /\ logged' = logged + 1
            /\ alerts' = alerts + 1
            /\ UNCHANGED transactions
       ELSE /\ transactions' = <<c.res.data[1]>> \o c.snap
            /\ UNCHANGED <<logged, alerts>>
    /\ calls' = calls \ {c}
    /\ UNCHANGED <<goals, isLoading, searchTerm, remoteTx, remoteGoals, nextId, clock,
                   fetch, events, saved>>

\* addTransaction after its await.
AddTransactionDone(c) ==
    /\ c.kind = "addTransaction"
    /\ c.res # Pending
    /\ IF c.res.state = "error"
       THEN /\ logged' = logged + 1
            /\ UNCHANGED transactions
       ELSE /\ transactions' = <<c.res.data[1]>> \o c.snap
            /\ UNCHANGED logged
    /\ calls' = calls \ {c}
    /\ UNCHANGED <<goals, isLoading, searchTerm, remoteTx, remoteGoals, nextId, clock,
                   fetch, events, alerts, saved>>

\* deleteTransaction up to its await, from the row's button in the table.
DeleteTransaction(id) ==
    /\ events < MaxEvents
    /\ ~isLoading
    /\ id \in Ids(filteredTransactions)
    /\ events' = events + 1
    /\ calls' = calls \cup { Call("deleteTransaction", transactions, [id |-> id]) }
    /\ UNCHANGED <<transactions, goals, isLoading, searchTerm, remoteTx, remoteGoals,
                   nextId, clock, fetch, alerts, logged, saved>>

\* The remote store answers a delete from transactions.
RemoveTransaction(c) ==
    /\ c.kind = "deleteTransaction"
    /\ c.res = Pending
    /\ \/ /\ remoteTx' = { r \in remoteTx : r.id # c.arg.id }
          /\ calls' = (calls \ {c}) \cup {[c EXCEPT !.res = Ok(<<>>)]}
       \/ /\ calls' = (calls \ {c}) \cup {[c EXCEPT !.res = Failed]}
          /\ UNCHANGED remoteTx
    /\ UNCHANGED <<transactions, goals, isLoading, searchTerm, remoteGoals, nextId,
                   clock, fetch, events, alerts, logged, saved>>

\* deleteTransaction after its await.
DeleteTransactionDone(c) ==
    /\ c.kind = "deleteTransaction"
    /\ c.res # Pending
    /\ IF c.res.state = "error"
       THEN /\ logged' = logged + 1
            /\ UNCHANGED transactions
       ELSE /\ transactions' = SelectSeq(c.snap, LAMBDA t : t.id # c.arg.id)
            /\ UNCHANGED logged
    /\ calls' = calls \ {c}
    /\ UNCHANGED <<goals, isLoading, searchTerm, remoteTx, remoteGoals, nextId, clock,
                   fetch, events, alerts, saved>>

\* addGoal up to its await.  The handler keeps the goals of the render it was
\* created in.
AddGoal(form) ==
    /\ events < MaxEvents
    /\ events' = events + 1
    /\ IF form.goalName = <<>> \/ form.goalTarget = <<>>
       THEN UNCHANGED calls
       ELSE calls' = calls \cup
                { Call("addGoal", goals,
                       [name |-> form.goalName,
                        target_amount |-> parseFloat(form.goalTarget)]) }
    /\ UNCHANGED <<transactions, goals, isLoading, searchTerm, remoteTx, remoteGoals,
                   nextId, clock, fetch, alerts, logged, saved>>

\* The remote store answers an insert into saving_goals.
InsertGoal(c) ==
    /\ c.kind = "addGoal"
    /\ c.res = Pending
    /\ \/ LET row == [id |-> nextId, name |-> c.arg.name,
                      target_amount |-> c.arg.target_amount]
          IN /\ remoteGoals' = Append(remoteGoals, row)
             /\ nextId' = nextId + 1
             /\ calls' = (calls \ {c}) \cup {[c EXCEPT !.res = Ok(<<row>>)]}
       \/ /\ calls' = (calls \ {c}) \cup {[c EXCEPT !.res = Failed]}
          /\ UNCHANGED <<remoteGoals, nextId>>
    /\ UNCHANGED <<transactions, goals, isLoading, searchTerm, remoteTx, clock,
                   fetch, events, alerts, logged, saved>>

\* addGoal after its await.
AddGoalDone(c) ==
    /\ c.kind = "addGoal"
    /\ c.res # Pending
    /\ IF c.res.state = "error"
       THEN /\ logged' = logged + 1
            /\ alerts' = alerts + 1
            /\ UNCHANGED goals
       ELSE /\ goals' = c.snap \o <<c.res.data[1]>>
            /\ UNCHANGED <<logged, alerts>>
    /\ calls' = calls \ {c}
    /\ UNCHANGED <<transactions, isLoading, searchTerm, remoteTx, remoteGoals, nextId,
                   clock, fetch, events, saved>>

\* deleteGoal up to its await, from the goal's button.
DeleteGoal(id) ==
    /\ events < MaxEvents
    /\ id \in Ids(goals)
    /\ events' = events + 1
    /\ calls' = calls \cup { Call("deleteGoal", goals, [id |-> id]) }
    /\ UNCHANGED <<transactions, goals, isLoading, searchTerm, remoteTx, remoteGoals,
                   nextId, clock, fetch, alerts, logged, saved>>

\* The remote store answers a delete from saving_goals.
RemoveGoal(c) ==
    /\ c.kind = "deleteGoal"
    /\ c.res = Pending
    /\ \/ /\ remoteGoals' = SelectSeq(remoteGoals, LAMBDA g : g.id # c.arg.id)
          /\ calls' = (calls \ {c}) \cup {[c EXCEPT !.res = Ok(<<>>)]}
       \/ /\ calls' = (calls \ {c}) \cup {[c EXCEPT !.res = Failed]}
          /\ UNCHANGED remoteGoals
    /\ UNCHANGED <<transactions, goals, isLoading, searchTerm, remoteTx, nextId,
                   clock, fetch, events, alerts, logged, saved>>

\* deleteGoal after its await.
DeleteGoalDone(c) ==
    /\ c.kind = "deleteGoal"
    /\ c.res # Pending
    /\ IF c.res.state = "error"
       THEN /\ logged' = logged + 1
            /\ UNCHANGED goals
       ELSE /\ goals' = SelectSeq(c.snap, LAMBDA g : g.id # c.arg.id)
            /\ UNCHANGED logged
    /\ calls' = calls \ {c}
    /\ UNCHANGED <<transactions, isLoading, searchTerm, remoteTx, remoteGoals, nextId,
                   clock, fetch, events, alerts, saved>>

\* The search box's onChange.
SetSearchTerm(q) ==
    /\ events < MaxEvents
    /\ q # searchTerm
    /\ events' = events + 1
    /\ searchTerm' = q
    /\ UNCHANGED <<transactions, goals, isLoading, remoteTx, remoteGoals, nextId,
                   clock, fetch, calls, alerts, logged, saved>>

\* exportToCSV without its test for an empty store.
exportToCSVAlways(now) ==
    /\ events < MaxEvents
    /\ events' = events + 1
    /\ saved' = Append(saved,
           [content |-> csvContent,
            type |-> "text/csv;charset=utf-8;",
            download |-> <<"ledger-lite-export-">> \o NatToStr(now \div 2)
                           \o <<".csv">>])
    /\ clock' = now
    /\ UNCHANGED <<transactions, goals, isLoading, searchTerm, remoteTx, remoteGoals,
                   nextId, fetch, calls, alerts, logged>>

\* exportToCSV, from the Export button.
exportToCSV(now) ==
    /\ events < MaxEvents
    /\ events' = events + 1
    /\ IF Len(transactions) = 0
       THEN UNCHANGED <<saved, clock>>
       ELSE /\ saved' = Append(saved,
                   [content |-> csvContent,
                    type |-> "text/csv;charset=utf-8;",
                    download |-> <<"ledger-lite-export-">> \o NatToStr(now \div 2)
                                   \o <<".csv">>])
            /\ clock' = now
    /\ UNCHANGED <<transactions, goals, isLoading, searchTerm, remoteTx, remoteGoals,
                   nextId, fetch, calls, alerts, logged>>

Next ==
    \/ ListTransactions
    \/ ListGoals
    \/ FetchDataDone
    \/ \E form \in TransactionForms, now \in {clock, clock + 1} :
          AddTransaction(form, now)
    \/ \E c \in calls : InsertTransaction(c)
    \/ \E c \in calls : AddTransactionDone(c)
    \/ \E id \in Ids(transactions) : DeleteTransaction(id)
    \/ \E c \in calls : RemoveTransaction(c)
    \/ \E c \in calls : DeleteTransactionDone(c)
    \/ \E form \in GoalForms : AddGoal(form)
    \/ \E c \in calls : InsertGoal(c)
    \/ \E c \in calls : AddGoalDone(c)
    \/ \E id \in Ids(goals) : DeleteGoal(id)
    \/ \E c \in calls : RemoveGoal(c)
    \/ \E c \in calls : DeleteGoalDone(c)
    \/ \E q \in SearchTerms : SetSearchTerm(q)
    \/ \E now \in {clock, clock + 1} : exportToCSV(now)

Spec == Init /\ [][Next]_vars

----------------------------------------------------------------------------
\* Properties

\* The call c ends in this step (the part of its handler after the await runs).
Ends(c) == c \in calls /\ calls' = calls \ {c}

FetchEnds == ~fetch.done /\ fetch'.done

FetchFailed == fetch.transRes.state = "error" \/ fetch.goalsRes.state = "error"

\* C1: the step in which a persistence call ends in an error leaves
\* transactions and goals as they were; for fetchData, also when only one of
\* its two list calls failed.
FailedCallKeepsStore ==
    [][ (\/ \E c \in calls : c.res.state = "error" /\ Ends(c)
         \/ FetchEnds /\ FetchFailed)
        => store' = store ]_vars

\* C1, its case: fetchData ended with the transactions listed and the goals
\* call failed, and the store holds none of the listed rows.
PartialFetchSeen ==
    /\ fetch.done
    /\ fetch.transRes.state = "ok"
    /\ fetch.transRes.data # <<>>
    /\ fetch.goalsRes.state = "error"
    /\ transactions = <<>>
    /\ logged > 0

\* C2: after a successful initial load, whenever no call is in flight, the ids
\* held locally are the ids the remote store holds.
StoreSynchronized ==
    (fetch.done /\ ~FetchFailed /\ calls = {})
        => Ids(transactions) = { r.id : r \in remoteTx }

RECURSIVE SumAmounts(_)
SumAmounts(S) ==
    IF S = {} THEN 0
    ELSE LET i == CHOOSE j \in S : TRUE
         IN transactions[i].amount + SumAmounts(S \ {i})

Rows == 1..Len(transactions)

\* C3: income is the sum of the income rows' amounts, expense the sum of the
\* expense rows' amounts, together they are the sum of all amounts, balance
\* is income minus expense, and both are 0 for the empty store.
TotalsAreSums ==
    /\ totals.income = SumAmounts({ i \in Rows : transactions[i].type = "income" })
    /\ totals.expense = SumAmounts({ i \in Rows : transactions[i].type = "expense" })
    /\ totals.income + totals.expense = SumAmounts(Rows)
    /\ balance = totals.income - totals.expense
    /\ transactions = <<>> => totals = [income |-> 0, expense |-> 0]

\* C3, its case: the store holds income and expense rows.
MixedRowsSeen ==
    /\ \E i \in Rows : transactions[i].type = "income"
    /\ \E i \in Rows : transactions[i].type = "expense"

\* p <= q for two ratios.
LessEq(p, q) ==
    p.kind = "number" /\ q.kind = "number" /\ p.num * q.den <= q.num * p.den

InPercentRange(p) == LessEq(Number(0, 1), p) /\ LessEq(p, Number(100, 1))

\* The balances a goal's progress is compared at: around the present balance,
\* one row more or less, around zero and around the goal's target.
Steps == { parseFloat(f.amount) : f \in TransactionForms } \cup { SalaryRow.amount, 1 }

Probes(bal, goal) ==
    { bal + d : d \in Steps } \cup { bal - d : d \in Steps }
        \cup { 0 - 1, 0, 1 }
        \cup { goal.target_amount + d : d \in {0 - 1, 0, 1} }

PositiveGoals == { i \in 1..Len(goals) : goals[i].target_amount > 0 }

\* C4 as claimed: for every goal with a positive target the computed progress
\* is in 0..100 and does not decrease as the balance grows.
ProgressInRange ==
    \A i \in PositiveGoals :
        LET g == goals[i]
            bal == balance
            p == progress(g)
        IN /\ InPercentRange(p)
           /\ \A b \in Probes(bal, g) :
                 /\ b <= bal => LessEq(progressOf(b, g), p)
                 /\ b >= bal => LessEq(p, progressOf(b, g))

\* C4 as amended: for every goal with a positive target the width given to
\* the bar is in 0..100 and does not decrease as the balance grows; the
\* computed progress is at most 100, does not decrease as the balance grows,
\* and is negative exactly when the balance is.
WidthInRange ==
    \A i \in PositiveGoals :
        LET g == goals[i]
            bal == balance
            p == progress(g)
            w == width(g)
        IN /\ InPercentRange(w)
           /\ LessEq(p, Number(100, 1))
           /\ p.num < 0 <=> bal < 0
           /\ isAchieved(g) <=> bal >= g.target_amount
           /\ \A b \in Probes(bal, g) :
                 /\ b <= bal =>
                       /\ LessEq(progressOf(b, g), p)
                       /\ LessEq(widthOf(progressOf(b, g)), w)
                 /\ b >= bal =>
                       /\ LessEq(p, progressOf(b, g))
                       /\ LessEq(w, widthOf(progressOf(b, g)))

\* C4, its case: a goal with a positive target is shown while the balance is
\* negative.
NegativeBalanceGoalSeen ==
    balance < 0 /\ PositiveGoals # {}

\* q occurs in s at some offset, letters compared without case.
OccursIn(q, s) ==
    \E off \in 0..(Len(s) - Len(q)) :
        \A k \in 1..Len(q) : LowerChar(s[off + k]) = LowerChar(q[k])

Matching ==
    { i \in Rows : \/ OccursIn(searchTerm, transactions[i].description)
                   \/ OccursIn(searchTerm, transactions[i].category) }

\* C5: the filtered view holds exactly the rows whose description or category
\* contains the search term, letters compared without case, in the store's
\* order; for the empty term it is the store's sequence.
FilterIsMatchingRows ==
    LET view == filteredTransactions
        rows == Matching
    IN /\ Len(view) = Cardinality(rows)
       /\ \A j \in 1..Len(view) :
             \E i \in rows :
                 /\ Cardinality({ k \in rows : k <= i }) = j
                 /\ view[j] = transactions[i]
       /\ searchTerm = <<>> => view = transactions

\* C5, its case: a term in capitals selects some rows of the store, not all.
ProperFilterSeen ==
    /\ searchTerm # <<>>
    /\ Len(filteredTransactions) > 0
    /\ Len(filteredTransactions) < Len(transactions)

\* The lines of a text: its parts between line feeds.
RECURSIVE Lines(_, _)
Lines(text, line) ==
    IF Len(text) = 0 THEN <<line>>
    ELSE IF Head(text) = "\n" THEN <<line>> \o Lines(Tail(text), <<>>)
    ELSE Lines(Tail(text), Append(line, Head(text)))

RowText(t) ==
    NatToStr(t.date \div 2) \o <<",">> \o t.description \o <<",">> \o t.category
        \o <<",">> \o <<t.type>> \o <<",">> \o NumberToString(t.amount)

\* C6: no file is handed over while the store is empty; a step that hands a
\* file over hands over one, leaves the store as it is, and the file's lines
\* are the header and then one line per transaction, in the store's order,
\* made of its date, description, category, type and amount.
ExportHandsRows ==
    [][ /\ transactions = <<>> => saved' = saved
        /\ saved' # saved =>
              /\ store' = store
              /\ Len(saved') = Len(saved) + 1
              /\ SubSeq(saved', 1, Len(saved)) = saved
              /\ LET lines == Lines(saved'[Len(saved')].content, <<>>)
                 IN /\ Len(lines) = 1 + Len(transactions)
                    /\ lines[1] = <<"Date", ",", "Description", ",", "Category",
                                    ",", "Type", ",", "Amount">>
                    /\ \A i \in Rows : lines[i + 1] = RowText(transactions[i]) ]_vars

\* C6, its case: a file with two rows, one of them added in this session,
\* has been handed over.
ExportSeen ==
    \E k \in 1..Len(saved) :
        /\ Len(Lines(saved[k].content, <<>>)) >= 3
        /\ saved[k].download = <<"ledger-lite-export-", "0", ".csv">>

\* C7: the dates of the store's transactions do not increase along it.
DatesDescend ==
    \A i, j \in Rows : i < j => transactions[i].date >= transactions[j].date

\* C7, its case: a row added in this session, at a later time, stands before
\* a row that was loaded.
AddedRowFirstSeen ==
    /\ Len(transactions) >= 2
    /\ transactions[1].id >= 2
    /\ transactions[1].date > transactions[Len(transactions)].date

\* C8: no two transactions of the store share an id, and no two goals.
IdsDistinct ==
    /\ \A i, j \in Rows : i # j => transactions[i].id # transactions[j].id
    /\ \A i, j \in 1..Len(goals) : i # j => goals[i].id # goals[j].id

\* C8, its case: the only event was an addTransaction, its row was in the
\* rows the initial load returned, and the addTransaction ended after the
\* load did (the store holds the added row alone).
InsertAfterLoadSeen ==
    /\ events = 1
    /\ calls = {}
    /\ fetch.done /\ ~FetchFailed
    /\ 2 \in Ids(fetch.transRes.data)
    /\ Ids(transactions) = {2}

\* C9: the step in which a deleteTransaction ends, for an id the store does
\* not hold, leaves the store's transactions as they are.
DeleteOfAbsentKeepsStore ==
    [][ \A c \in calls :
          (c.kind = "deleteTransaction" /\ Ends(c) /\ c.arg.id \notin Ids(transactions))
              => transactions' = transactions ]_vars

\* C10: a step raises an alert exactly when it is the end of an addGoal whose
\* insert failed, and it raises one.
AlertOnlyOnGoalFailure ==
    [][ /\ alerts' # alerts <=>
              \E c \in calls : c.kind = "addGoal" /\ c.res.state = "error" /\ Ends(c)
        /\ alerts' \in {alerts, alerts + 1} ]_vars

\* C10, its case: an addGoal failed and raised the alert, after another kind
\* of call had failed without one.
AlertSeen ==
    alerts = 1 /\ logged = 2

====
